---- MODULE Spec2Model ----
(***************************************************************************)
(* Model of src/mcp_chatbot.py: a Streamlit page that gates a main UI      *)
(* behind a Gemini API-key check and then loads a schema and runs queries  *)
(* through an MCP subprocess.  One action is one script run triggered by a *)
(* user interaction (a button press or a widget edit).                     *)
(*                                                                         *)
(* Texts are sequences of lexemes.  The lexemes are                        *)
(*   "["  "]"  ","   JSON punctuation                                      *)
(*   "D"  a JSON object literal with the three INFORMATION_SCHEMA keys     *)
(*   "N"  a JSON number literal                                            *)
(*   "B"  a JSON integer literal longer than CPython's int digit limit     *)
(*   " "  whitespace                                                       *)
(*   "E"  the literal prefix "Error:"                                      *)
(*   "m"  any other run of plain characters                                *)
(***************************************************************************)
EXTENDS Integers, Sequences, FiniteSets, TLC

\* session_state: st.session_state, key -> value
\* environ:       os.environ, the keys the program writes
\* ui:            what the last script run put on the page
\* bridgeLog:     the subprocess events of the last script run, in order
\* called:        the outcomes of the external calls of the last script run
VARIABLES session_state, environ, ui, bridgeLog, called

vars == <<session_state, environ, ui, bridgeLog, called>>

-----------------------------------------------------------------------------
(* Python values *)

\* A Python value: t is its type; items its elements (list) or characters
\* (str), s a printable name of a str produced by the program itself.
Val(t, items, s) == [t |-> t, items |-> items, s |-> s]

NoneVal == Val("NoneType", <<>>, "")

StrVal(text) == Val("str", text, "")

ObjVal == Val("object", <<>>, "")

NumVal == Val("int", <<>>, "")

ListVal(items) == Val("list", items, "")

\* The columns of the schema query and what the object literal "D" holds.
DictKeys == <<"TABLE_SCHEMA", "TABLE_NAME", "COLUMN_NAME">>

DictVal == Val("dict", [i \in 1..3 |-> Val("str", <<>>, DictKeys[i])], "")

\* row.get(k) on the object literal "D": the value it holds under key k.
DictGet(k) ==
    CASE k = "TABLE_SCHEMA" -> Val("str", <<>>, "dbo")
      [] k = "TABLE_NAME" -> Val("str", <<>>, "Orders")
      [] k = "COLUMN_NAME" -> Val("str", <<>>, "id")

\* k[:3] for each key of "D" (iterating a dict yields its keys).
KeyPrefix(k) ==
    CASE k = "TABLE_SCHEMA" -> <<Val("str", <<"T">>, ""), Val("str", <<"A">>, ""), Val("str", <<"B">>, "")>>
      [] k = "TABLE_NAME" -> <<Val("str", <<"T">>, ""), Val("str", <<"A">>, ""), Val("str", <<"B">>, "")>>
      [] k = "COLUMN_NAME" -> <<Val("str", <<"C">>, ""), Val("str", <<"O">>, ""), Val("str", <<"L">>, "")>>

\* bool(v) for the values a reply can be.
Truthy(v) ==
    CASE v.t = "NoneType" -> FALSE
      [] v.t = "str" -> v.items # <<>>
      [] v.t = "list" -> v.items # <<>>
      [] v.t = "dict" -> v.items # <<>>
      [] OTHER -> TRUE

-----------------------------------------------------------------------------
(* str methods *)

RECURSIVE LStrip(_)
LStrip(text) ==
    IF text # <<>> /\ Head(text) = " " THEN LStrip(Tail(text)) ELSE text

RECURSIVE RStrip(_)
RStrip(text) ==
    IF text # <<>> /\ text[Len(text)] = " "
    THEN RStrip(SubSeq(text, 1, Len(text) - 1))
    ELSE text

\* str.strip()
Strip(text) == RStrip(LStrip(text))

\* str.startswith(prefix) for a one-lexeme prefix
StartsWith(text, lexeme) == text # <<>> /\ Head(text) = lexeme

-----------------------------------------------------------------------------
(* json.loads *)

RECURSIVE SkipWs(_, _)
SkipWs(text, i) ==
    IF i <= Len(text) /\ text[i] = " " THEN SkipWs(text, i + 1) ELSE i

Parsed(v, next) == [err |-> "none", val |-> v, next |-> next]

Raised(e) == [err |-> e, val |-> NoneVal, next |-> 0]

RECURSIVE ParseValue(_, _)
RECURSIVE ParseItems(_, _, _)

\* The scanner at position i (whitespace already skipped).
ParseValue(text, i) ==
    IF i > Len(text) THEN Raised("JSONDecodeError")
    ELSE CASE text[i] = "D" -> Parsed(DictVal, i + 1)
           [] text[i] = "N" -> Parsed(NumVal, i + 1)
           [] text[i] = "B" -> Raised("ValueError")
           [] text[i] = "[" ->
                LET j == SkipWs(text, i + 1) IN
                IF j <= Len(text) /\ text[j] = "]"
                THEN Parsed(ListVal(<<>>), j + 1)
                ELSE ParseItems(text, j, <<>>)
           [] OTHER -> Raised("JSONDecodeError")

\* The elements of an array, the first of them at position i.
ParseItems(text, i, acc) ==
    LET r == ParseValue(text, i) IN
    IF r.err # "none" THEN r
    ELSE LET j == SkipWs(text, r.next)
             items == Append(acc, r.val)
         IN  IF j > Len(text) THEN Raised("JSONDecodeError")
             ELSE IF text[j] = "]" THEN Parsed(ListVal(items), j + 1)
             ELSE IF text[j] = "," THEN ParseItems(text, SkipWs(text, j + 1), items)
             ELSE Raised("JSONDecodeError")

\* json.loads(text): [err, val]; trailing non-whitespace is "Extra data".
json_loads(text) ==
    LET r == ParseValue(text, SkipWs(text, 1)) IN
    IF r.err # "none" THEN r
    ELSE IF SkipWs(text, r.next) <= Len(text) THEN Raised("JSONDecodeError")
    ELSE r

-----------------------------------------------------------------------------
(* pandas.DataFrame(rows) for a parsed JSON array: the set of outcomes *)

\* "ok", or the exception the constructor raises.  A first element that is a
\* mapping sends every element through x.keys(); a first element that is a
\* list sends every element through len(); a scalar first element builds an
\* object array, which the installed numpy may refuse for ragged input.
DataFrame(rows) ==
    LET items == rows.items
        types == {items[i].t : i \in 1..Len(items)}
    IN  IF items = <<>> THEN {"ok"}
        ELSE CASE items[1].t = "dict" ->
                    IF types \subseteq {"dict"} THEN {"ok"} ELSE {"AttributeError"}
               [] items[1].t = "list" ->
                    IF "int" \in types THEN {"TypeError"} ELSE {"ok"}
               [] OTHER ->
                    IF "list" \in types THEN {"ok", "ValueError"} ELSE {"ok"}

-----------------------------------------------------------------------------
(* The schema mapping *)

\* Number of leading elements a non-mapping row is unpacked into (row[:3]).
RowWidth == 3

\* One entry of the schema dict: f"{sch}.{tbl}" -> [col, ...]
Entry(key, cols) == [key |-> key, cols |-> cols]

\* A schema dict with entries in insertion order.
SchemaDict(entries) == Val("dict", entries, "schema")

\* {"raw_output": rows}
RawOutput(rows) == Val("dict", <<rows>>, "raw_output")

\* schema.setdefault(key, []).append(col)
SetDefaultAppend(entries, key, col) ==
    IF \E i \in 1..Len(entries) : entries[i].key = key
    THEN [i \in 1..Len(entries) |->
            IF entries[i].key = key
            THEN Entry(key, Append(entries[i].cols, col))
            ELSE entries[i]]
    ELSE Append(entries, Entry(key, <<col>>))

\* sch, tbl, col of one row: [err, cells]
RowCells(row) ==
    CASE row.t = "dict" ->
            [err |-> "none", cells |-> [i \in 1..3 |-> DictGet(DictKeys[i])]]
      [] row.t = "list" ->
            IF Len(row.items) >= RowWidth
            THEN [err |-> "none", cells |-> SubSeq(row.items, 1, RowWidth)]
            ELSE [err |-> "ValueError", cells |-> <<>>]
      [] row.t = "str" /\ row.s \in {DictKeys[i] : i \in 1..3} ->
            [err |-> "none", cells |-> KeyPrefix(row.s)]
      [] OTHER -> [err |-> "TypeError", cells |-> <<>>]

RECURSIVE FillSchema(_, _)
\* for row in rows_list: ... ; [err, entries]
FillSchema(rows, entries) ==
    IF rows = <<>> THEN [err |-> "none", entries |-> entries]
    ELSE LET c == RowCells(Head(rows)) IN
         IF c.err # "none" THEN [err |-> c.err, entries |-> entries]
         ELSE FillSchema(Tail(rows),
                         SetDefaultAppend(entries, <<c.cells[1], c.cells[2]>>, c.cells[3]))

\* iter(rows_list): [err, rows]; a dict yields its keys, a number is not iterable.
Iterate(v) ==
    IF v.t \in {"list", "dict"} THEN [err |-> "none", rows |-> v.items]
    ELSE [err |-> "TypeError", rows |-> <<>>]

-----------------------------------------------------------------------------
(* The subprocess bridge *)

\* What the handlers get back from load_schema / run_query.
Resp(status, schema, result, message) ==
    [status |-> status, schema |-> schema, result |-> result, message |-> message]

\* str(e) of a caught exception (its text is not modelled further).
ExcMessage == StrVal(<<"m">>)

\* create_agent: the connection is opened by the "async with" and closed when
\* the function returns or raises through it.  spawn and init are the outcomes
\* of stdio_client(...) and client.initialize(): "ok" or "raise".
create_agent(spawn, init) ==
    IF spawn = "raise" THEN [err |-> TRUE, log |-> <<"spawn">>]
    ELSE [err |-> init = "raise", log |-> <<"spawn", "open", "initialize", "close">>]

\* call_mcp: reply is what client.sampling returns, or "raise".
call_mcp(sampling, reply) ==
    IF sampling = "raise"
    THEN [result |-> StrVal(<<"E", "m">>), log |-> <<"request", "error">>]
    ELSE [result |-> reply, log |-> <<"request", "response">>]

\* load_schema_async: [resp, log]
load_schema_async(spawn, init, sampling, reply) ==
    LET agent == create_agent(spawn, init) IN
    IF agent.err THEN [resp |-> Resp("error", NoneVal, NoneVal, ExcMessage), log |-> agent.log]
    ELSE
    LET call == call_mcp(sampling, reply)
        rows == call.result
        log == agent.log \o call.log
        failed == [resp |-> Resp("error", NoneVal, NoneVal, ExcMessage), log |-> log]
    IN  IF ~Truthy(rows) THEN [resp |-> Resp("error", NoneVal, NoneVal, rows), log |-> log]
        ELSE IF rows.t # "str" THEN failed
        ELSE IF StartsWith(rows.items, "E")
             THEN [resp |-> Resp("error", NoneVal, NoneVal, rows), log |-> log]
        ELSE LET p == json_loads(rows.items) IN
             IF p.err = "JSONDecodeError"
             THEN [resp |-> Resp("success", RawOutput(rows), NoneVal, NoneVal), log |-> log]
             ELSE IF p.err # "none" THEN failed
             ELSE LET it == Iterate(p.val) IN
                  IF it.err # "none" THEN failed
                  ELSE LET f == FillSchema(it.rows, <<>>) IN
                       IF f.err # "none" THEN failed
                       ELSE [resp |-> Resp("success", SchemaDict(f.entries), NoneVal, NoneVal),
                             log |-> log]

\* run_query_async: [resp, log]
run_query_async(spawn, init, sampling, reply) ==
    LET agent == create_agent(spawn, init) IN
    IF agent.err THEN [resp |-> Resp("error", NoneVal, NoneVal, ExcMessage), log |-> agent.log]
    ELSE LET call == call_mcp(sampling, reply) IN
         [resp |-> Resp("success", NoneVal, call.result, NoneVal),
          log |-> agent.log \o call.log]

-----------------------------------------------------------------------------
(* Inputs and outcomes of the external calls *)

\* What the user can type into the API-key box.
Keys == {"", "key1"}

\* What the user can type into the query box.
Queries == {"", "how many orders"}

\* The most elements an array reply is drawn with.
MaxRows == 2

\* The array elements replies are drawn from: an object and a number.
RowLexemes == {"D", "N"}

RECURSIVE Joined(_)
\* The lexemes of a sequence of elements, separated by commas.
Joined(els) ==
    IF els = <<>> THEN <<>>
    ELSE IF Len(els) = 1 THEN <<els[1]>>
    ELSE <<els[1], ",">> \o Joined(Tail(els))

\* Every JSON array of at most MaxRows elements drawn from RowLexemes.
ArrayTexts ==
    { <<"[">> \o Joined(els) \o <<"]">> :
        els \in UNION {[1..n -> RowLexemes] : n \in 0..MaxRows} }

\* Texts client.sampling can return: the arrays, and an empty text, prose,
\* an "Error:" text, a padded array, a cut-off array, an over-long integer,
\* arrays of arrays, and a bare object and number.
ReplyTexts ==
    ArrayTexts \cup
    { <<>>,
      <<"m">>,
      <<"E", "m">>,
      <<" ", "[", "D", "]", " ">>,
      <<"[", "D", ",">>,
      <<"[", "B", "]">>,
      <<"[", "[", "N", ",", "N", ",", "N", "]", "]">>,
      <<"[", "[", "N", "]", ",", "N", "]">>,
      <<"[", "N", ",", "[", "N", "]", "]">>,
      <<"D">>,
      <<"N">> }

\* Values client.sampling can return: None, a message object, or a text.
Replies == {NoneVal, ObjVal} \cup {StrVal(t) : t \in ReplyTexts}

Ext(spawn, init, sampling, reply) ==
    [spawn |-> spawn, init |-> init, sampling |-> sampling, reply |-> reply]

\* Outcomes of one bridge call: the spawn fails, the handshake fails, the
\* request fails, or a reply comes back.
BridgeOutcomes ==
    { Ext("raise", "ok", "ok", NoneVal),
      Ext("ok", "raise", "ok", NoneVal),
      Ext("ok", "ok", "raise", NoneVal) }
    \cup {Ext("ok", "ok", "ok", r) : r \in Replies}

-----------------------------------------------------------------------------
(* Session state and the page *)

\* st.session_state.<key> with the default the script gives a missing key.
Get(key) ==
    IF key \in DOMAIN session_state THEN session_state[key] ELSE NoneVal

\* The gate left open: the rest of the script runs whatever the flag says.
UnlockedAlways == TRUE

\* The gate of lines 35-51: the script goes past st.stop() only when set.
Unlocked == session_state["validated"]

\* The session has a single validation flag; the database link is the fixed
\* DB_LINK and no flag records a check of it.
database_validated == FALSE

\* The keys assigned on every run, without the "not in" tests.
ResetKeys(ss) ==
    ("schema" :> NoneVal) @@ ("result" :> NoneVal) @@ ss

\* Lines 145-148: create the schema and result keys when missing.
EnsureKeys(ss) ==
    ss @@ ("schema" :> NoneVal) @@ ("result" :> NoneVal)

\* What one script run put on the page.
Page(handler, query, banner, message, detail, view, content, csv, exception, footer) ==
    [handler |-> handler, query |-> query,
     banner |-> banner, message |-> message, detail |-> detail,
     view |-> view, content |-> content, csv |-> csv, exception |-> exception,
     footer |-> footer]

\* A run in which no button was pressed.
Idle(footer) == Page("none", "", "none", "", NoneVal, "none", NoneVal, FALSE, "none", footer)

\* No external call was made in the run.
NoCall ==
    [invoke |-> "none", bridge |-> [spawn |-> "none", init |-> "none", sampling |-> "none"]]

\* The outcomes of the bridge's three steps, without the reply.
Steps(ext) == [spawn |-> ext.spawn, init |-> ext.init, sampling |-> ext.sampling]

Init ==
    /\ session_state = ("validated" :> FALSE) @@ ("user_api_key" :> "")
    /\ environ = <<>>
    /\ ui = Idle(FALSE)
    /\ bridgeLog = <<>>
    /\ called = NoCall

\* The probe's exception swallowed into a pass.
validate_api_key_always(invoke) == TRUE

\* validate_api_key: os.environ is written before the probe; invoke is the
\* outcome of test_model.invoke("ping"): "ok" or "raise".
validate_api_key(invoke) == invoke = "ok"

\* The locked page is drawn with key k in the box and no button pressed.
EnterKey(k) ==
    /\ ~Unlocked
    /\ session_state' = [session_state EXCEPT !["user_api_key"] = k]
    /\ ui' = Idle(FALSE)
    /\ bridgeLog' = <<>>
    /\ called' = NoCall
    /\ UNCHANGED environ

\* "Validate Key" pressed with key k in the box.
ValidateKey(k, invoke) ==
    /\ ~Unlocked
    /\ environ' = ("GOOGLE_API_KEY" :> k) @@ environ
    /\ bridgeLog' = <<>>
    /\ called' = [NoCall EXCEPT !.invoke = invoke]
    /\ IF validate_api_key(invoke)
       THEN /\ session_state' =
                 EnsureKeys([session_state EXCEPT !["user_api_key"] = k,
                                                  !["validated"] = TRUE])
            /\ ui' = Page("ValidateKey", "", "success", "API Key validated", NoneVal,
                          "none", NoneVal, FALSE, "none", FALSE)
       ELSE /\ session_state' = [session_state EXCEPT !["user_api_key"] = k]
            /\ ui' = Page("ValidateKey", "", "error", "Invalid Gemini API Key", NoneVal,
                          "none", NoneVal, FALSE, "none", FALSE)

\* The unlocked page is drawn with no button pressed.
Rerun ==
    /\ Unlocked
    /\ session_state' = EnsureKeys(session_state)
    /\ ui' = Idle(Truthy(Get("schema")))
    /\ bridgeLog' = <<>>
    /\ called' = NoCall
    /\ UNCHANGED environ

\* "Load Schema" pressed.
LoadSchema(ext) ==
    /\ Unlocked
    /\ LET r == load_schema_async(ext.spawn, ext.init, ext.sampling, ext.reply)
           resp == r.resp
       IN  /\ bridgeLog' = r.log
           /\ called' = [NoCall EXCEPT !.bridge = Steps(ext)]
           /\ IF resp.status = "success"
              THEN /\ session_state' =
                        [EnsureKeys(session_state) EXCEPT !["schema"] = resp.schema]
                   /\ ui' = Page("LoadSchema", "", "success", "Schema loaded", NoneVal,
                                 IF resp.schema.s # "raw_output" THEN "json" ELSE "write",
                                 resp.schema, FALSE, "none", Truthy(resp.schema))
              ELSE /\ session_state' = EnsureKeys(session_state)
                   /\ ui' = Page("LoadSchema", "", "error", "Failed", resp.message,
                                 "none", NoneVal, FALSE, "none", Truthy(Get("schema")))
    /\ UNCHANGED environ

\* Lines 174-183: what is drawn for a result, for one outcome df of
\* pd.DataFrame: [view, csv, exception].
Present(result, df) ==
    IF result.t = "str" /\ StartsWith(Strip(result.items), "[")
    THEN LET p == json_loads(result.items) IN
         IF p.err = "JSONDecodeError"
         THEN [view |-> "write", csv |-> FALSE, exception |-> "none"]
         ELSE IF p.err # "none"
         THEN [view |-> "none", csv |-> FALSE, exception |-> p.err]
         ELSE IF df = "ok"
         THEN [view |-> "dataframe", csv |-> TRUE, exception |-> "none"]
         ELSE IF df = "TypeError"
         THEN [view |-> "write", csv |-> FALSE, exception |-> "none"]
         ELSE [view |-> "none", csv |-> FALSE, exception |-> df]
    ELSE [view |-> "write", csv |-> FALSE, exception |-> "none"]

\* The outcomes pd.DataFrame can have for this result.
FrameOutcomes(result) ==
    IF result.t = "str" /\ json_loads(result.items).err = "none"
       /\ json_loads(result.items).val.t = "list"
    THEN DataFrame(json_loads(result.items).val)
    ELSE {"ok"}

\* The test written as "is not None".
SchemaIsNotNone == Get("schema").t # "NoneType"

\* Line 166: the query is sent only with a cached schema that is truthy.
SchemaLoaded == Truthy(Get("schema"))

\* "Run Query" pressed with q in the query box.
RunQuery(q, ext) ==
    /\ Unlocked
    /\ IF ~SchemaLoaded
       THEN /\ session_state' = EnsureKeys(session_state)
            /\ bridgeLog' = <<>>
            /\ called' = NoCall
            /\ ui' = Page("RunQuery", q, "warning", "Load schema first", NoneVal,
                          "none", NoneVal, FALSE, "none", FALSE)
       ELSE LET r == run_query_async(ext.spawn, ext.init, ext.sampling, ext.reply)
                resp == r.resp
            IN  /\ bridgeLog' = r.log
                /\ called' = [NoCall EXCEPT !.bridge = Steps(ext)]
                /\ IF resp.status = "success"
                   THEN /\ session_state' =
                             [EnsureKeys(session_state) EXCEPT !["result"] = resp.result]
                        /\ \E df \in FrameOutcomes(resp.result) :
                             LET shown == Present(resp.result, df) IN
                             ui' = Page("RunQuery", q, "success", "Query executed", NoneVal,
                                        shown.view,
                                        IF shown.view = "none" THEN NoneVal ELSE resp.result,
                                        shown.csv, shown.exception,
                                        shown.exception = "none")
                   ELSE /\ session_state' = EnsureKeys(session_state)
                        /\ ui' = Page("RunQuery", q, "error", "Error", resp.message,
                                      "none", NoneVal, FALSE, "none", TRUE)
    /\ UNCHANGED environ

Next ==
    \/ \E k \in Keys : EnterKey(k)
    \/ \E k \in Keys, invoke \in {"ok", "raise"} : ValidateKey(k, invoke)
    \/ Rerun
    \/ \E ext \in BridgeOutcomes : LoadSchema(ext)
    \/ \E q \in Queries, ext \in BridgeOutcomes : RunQuery(q, ext)

Spec == Init /\ [][Next]_vars

-----------------------------------------------------------------------------
(* Properties *)

Handlers == {"ValidateKey", "LoadSchema", "RunQuery"}

\* A schema load or a query reached the bridge in the last run.
Dispatched == bridgeLog # <<>>

CanLoadSchema == ENABLED (\E ext \in BridgeOutcomes : LoadSchema(ext))

CanRunQuery == ENABLED (\E q \in Queries, ext \in BridgeOutcomes : RunQuery(q, ext))

\* C1 as stated: a schema load or a query is dispatched to the bridge only
\* when both the LLM-key flag and a database flag are true in the session.
C1_DispatchNeedsBothFlags ==
    Dispatched => (session_state["validated"] /\ database_validated)

\* C1 as amended: a schema load or a query is dispatched to the bridge only
\* when the session's single flag, the LLM-key flag, is true.
C1_DispatchNeedsKeyFlag ==
    Dispatched => session_state["validated"]

C1_Witness ==
    /\ Dispatched
    /\ ui.handler \in {"LoadSchema", "RunQuery"}
    /\ session_state["validated"]

\* C2: whenever the provider call of a Validate Key press raises, the flag is
\* false afterwards and neither Load Schema nor Run Query can be taken,
\* however many failed attempts came before.
C2_FailedValidationStaysLocked ==
    called.invoke = "raise" =>
        /\ ~session_state["validated"]
        /\ ui.banner = "error"
        /\ ~CanLoadSchema
        /\ ~CanRunQuery

C2_Witness ==
    /\ called.invoke = "raise"
    /\ ui.handler = "ValidateKey"
    /\ ui.banner = "error"
    /\ environ = ("GOOGLE_API_KEY" :> "key1")
    /\ session_state["user_api_key"] = "key1"

\* The result is a text whose trimmed form begins with "[" and that parses
\* as a JSON array of objects.
IsRowArray(result) ==
    /\ result.t = "str"
    /\ StartsWith(Strip(result.items), "[")
    /\ json_loads(result.items).err = "none"
    /\ LET items == json_loads(result.items).val.items IN
       \A i \in 1..Len(items) : items[i].t = "dict"

\* The result is no text, or a text that does not begin with "[" once
\* trimmed, or one that is not well-formed JSON.
IsPlain(result) ==
    \/ result.t # "str"
    \/ ~StartsWith(Strip(result.items), "[")
    \/ json_loads(result.items).err = "JSONDecodeError"

\* C3: for every result of a successful query the presenter raises nothing;
\* an array of row records is shown as a table with a CSV export, and a
\* result without the prefix or with a malformed body is written verbatim.
C3_PresenterNeverRaises ==
    (ui.handler = "RunQuery" /\ ui.banner = "success") =>
        /\ ui.exception = "none"
        /\ IsRowArray(session_state["result"]) => (ui.view = "dataframe" /\ ui.csv)
        /\ IsPlain(session_state["result"]) =>
               (ui.view = "write" /\ ui.content = session_state["result"])

\* C4: each button handler ends with a success, warning or error banner on
\* the page and lets no exception out, whatever the external calls did.
C4_HandlersCatchEverything ==
    ui.handler \in Handlers =>
        /\ ui.banner \in {"success", "warning", "error"}
        /\ ui.exception = "none"

\* C5: when the request of a Run Query fails in the bridge, the press ends
\* with the error banner, is not reported as executed, and the session's
\* last result is left as it was.
C5_BridgeFailureIsError ==
    [][(ui'.handler = "RunQuery" /\ called'.bridge.sampling = "raise") =>
           /\ ui'.banner = "error"
           /\ ui'.message # "Query executed"
           /\ session_state'["result"] = session_state["result"]]_vars

\* C6 as stated: every Run Query press in the validated session reaches the
\* bridge, with or without a schema load before it, and leaves the session
\* validated with Run Query available again.
C6_QueryRunsWithoutSchema ==
    ui.handler = "RunQuery" =>
        /\ Dispatched
        /\ session_state["validated"]
        /\ CanRunQuery

\* C6 as amended: a Run Query press reaches the bridge exactly when the
\* cached schema is non-empty, and is otherwise answered with the "Load
\* schema first" warning; either way the session stays validated with Run
\* Query available again.
C6_QueryRunsOnlyWithSchema ==
    ui.handler = "RunQuery" =>
        /\ Dispatched <=> Truthy(Get("schema"))
        /\ ~Dispatched => (ui.banner = "warning" /\ ui.message = "Load schema first")
        /\ session_state["validated"]
        /\ CanRunQuery

C6_Witness ==
    /\ ui.handler = "RunQuery"
    /\ Dispatched
    /\ ui.banner \in {"success", "error"}
    /\ Truthy(Get("schema"))

\* C7: a Run Query press with an empty query box is refused before anything
\* is spawned or sent.
C7_EmptyQueryRefused ==
    (ui.handler = "RunQuery" /\ ui.query = "") =>
        /\ ~Dispatched
        /\ ui.banner # "success"

\* Positions of an event in the log of the last run.
At(event) == {i \in 1..Len(bridgeLog) : bridgeLog[i] = event}

\* C8: the request of a call is sent while the connection opened for that
\* call is open, and the connection is closed only after the call's response
\* or error.
C8_RequestWhileOpen ==
    /\ \A i \in At("request") :
          /\ \E j \in At("open") : j < i
          /\ \A j \in At("close") : i < j
    /\ \A j \in At("close") :
          At("request") # {} => \E i \in At("response") \cup At("error") : i < j

\* C9: the cached schema changes only in a Load Schema press that reports
\* success; a failed load, a key validation and a query leave it as it was.
C9_SchemaChangesOnlyOnLoad ==
    [][Get("schema")' # Get("schema") =>
           (ui'.handler = "LoadSchema" /\ ui'.banner = "success")]_vars

C9_Witness ==
    /\ ui.handler = "LoadSchema"
    /\ ui.banner = "error"
    /\ Dispatched
    /\ Truthy(Get("schema"))

\* C10: a Run Query press that follows a Load Schema press reporting success
\* reaches the bridge, whatever the schema query replied.
C10_QueryAfterLoadIsSent ==
    [][(ui.handler = "LoadSchema" /\ ui.banner = "success" /\ ui'.handler = "RunQuery") =>
           (bridgeLog' # <<>> /\ ui'.message # "Load schema first")]_vars

====
